---- MODULE Spec2Model ----
(***************************************************************************)
(* autostruct: catalog rows -> assembled schema -> snippets -> finalized   *)
(* snippets -> files.  Text is modelled as a sequence of lines; a HashMap  *)
(* or HashSet iteration is a nondeterministic choice of an order.          *)
(***************************************************************************)
EXTENDS Naturals, Integers, Sequences, FiniteSets, TLC

VARIABLES
    catalog,          \* rows of information_schema.columns (ORDER BY table_name, ordinal_position)
    enum_catalog,     \* rows of pg_enum joined with pg_type
    composite_catalog,\* rows of pg_attribute of composite types
    excluded_tables,  \* Database.excluded_tables (Builder::exclude)
    singular,         \* Options.singular
    pc,               \* position of run / generate_code
    schema,           \* DatabaseSchema returned by get_schema
    snippets,         \* Vec<Snippet> of generate_code
    next_snippet,     \* index of the loop over snippets (finalize loop, write loop)
    second_pass,      \* snippets of an independent second generate_code over the same schema
    dir_exists,       \* output_dir.exists()
    files,            \* path -> text of the files in the target directory
    module_names,     \* Vec<(String, String)> of run
    result,           \* value returned by run
    call,             \* a direct call of a pure function: [fn, arg]
    ret               \* its return value

vars == <<catalog, enum_catalog, composite_catalog, excluded_tables, singular, pc,
          schema, snippets, next_snippet, second_pass, dir_exists, files,
          module_names, result, call, ret>>

None == "(none)"

\* the variables before they hold a value
NoSchema == [enumerations |-> <<>>, composite_types |-> <<>>, tables |-> <<>>]
NoCall == [fn |-> None]
NoReturn == [done |-> FALSE]
Returned(v) == [done |-> TRUE, val |-> v]

\* ------------------------------------------------------------------------
\* Bounds

MaxRows == 2
MaxExcluded == 2
MaxGroupRows == 3
MaxEnumRows == 3
MaxDepth == 2

\* ------------------------------------------------------------------------
\* Generic helpers

Elems(s) == {s[i] : i \in DOMAIN s}

SeqsUpTo(S, n) == UNION {[1..m -> S] : m \in 0..n}

\* all sequences that enumerate the finite set S without repetition
Orders(S) == {o \in [1..Cardinality(S) -> S] : Elems(o) = S}

RECURSIVE Flatten(_)
Flatten(ss) == IF ss = <<>> THEN <<>> ELSE Head(ss) \o Flatten(Tail(ss))

RECURSIVE ConcatAll(_)
ConcatAll(ws) == IF ws = <<>> THEN "" ELSE Head(ws) \o ConcatAll(Tail(ws))

\* slice.join(sep) of the standard library
RECURSIVE Join(_, _)
Join(ws, sep) ==
    IF ws = <<>> THEN ""
    ELSE IF Len(ws) = 1 THEN ws[1]
    ELSE ws[1] \o sep \o Join(Tail(ws), sep)

\* ------------------------------------------------------------------------
\* cruet::Inflector on the identifiers of the model

\* the words cruet splits an identifier into (at '_', at a case change, before a digit)
Words(s) ==
    CASE s = "" -> <<>>
      [] s = "Users" -> <<"users">>
      [] s = "User" -> <<"user">>
      [] s = "Mood" -> <<"mood">>
      [] s = "Moods" -> <<"moods">>
      [] s = "Address" -> <<"address">>
      [] s = "Addresses" -> <<"addresses">>
      [] s = "_int4" -> <<"int", "4">>
      [] s = "__int4" -> <<"int", "4">>
      [] s = "user_id" -> <<"user", "id">>
      [] s = "zip_code" -> <<"zip", "code">>
      [] OTHER -> <<s>>

Capitalize(w) ==
    CASE w = "users" -> "Users"
      [] w = "user" -> "User"
      [] w = "mood" -> "Mood"
      [] w = "moods" -> "Moods"
      [] w = "ltree" -> "Ltree"
      [] w = "size" -> "Size"
      [] w = "point" -> "Point"
      [] w = "address" -> "Address"
      [] w = "addresses" -> "Addresses"
      [] w = "int" -> "Int"
      [] w = "happy" -> "Happy"
      [] w = "sad" -> "Sad"
      [] w = "ok" -> "Ok"
      [] w = "xyz" -> "Xyz"
      [] w = "json" -> "Json"
      [] w = "id" -> "Id"
      [] w = "zip" -> "Zip"
      [] w = "code" -> "Code"
      [] OTHER -> w

to_pascal_case(s) == ConcatAll([i \in DOMAIN Words(s) |-> Capitalize(Words(s)[i])])

to_snake_case(s) == Join(Words(s), "_")

to_singular(s) ==
    CASE s = "users" -> "user"
      [] s = "moods" -> "mood"
      [] s = "addresses" -> "address"
      [] OTHER -> s

\* ------------------------------------------------------------------------
\* rust::Type

Leaf(kind, name) == [kind |-> kind, name |-> name]
TypeOption(inner) == [kind |-> "Option", inner |-> inner]
TypeVector(inner) == [kind |-> "Vector", inner |-> inner]
TypeRangeDropped(inner) == inner
TypeRange(inner) == [kind |-> "Range", inner |-> inner]
TypeCustom(name) == [kind |-> "Custom", name |-> name]

Wrappers == {"Option", "Vector", "Range"}

\* impl Display for Type
RECURSIVE Display(_)
Display(t) ==
    CASE t.kind = "Vector" -> "Vec<" \o Display(t.inner) \o ">"
      [] t.kind = "Option" -> "Option<" \o Display(t.inner) \o ">"
      [] t.kind = "Range" -> "Range<" \o Display(t.inner) \o ">"
      [] OTHER -> t.name

\* a catch-all arm that rejects the name (what `pg_type => Type::Custom(..)` does not do)
CatchAllFails(pg_type) == [kind |-> "Error", name |-> pg_type]

\* the last arm of the match of type_name_from: pg_type => Type::Custom(pg_type.to_string())
CatchAll(pg_type) == TypeCustom(pg_type)

\* InfoProvider::type_name_from of the PostgreSQL provider
type_name_from(db_type) ==
    CASE db_type \in {"bool", "boolean"} -> Leaf("Bool", "bool")
      [] db_type = "char" -> Leaf("I8", "i8")
      [] db_type \in {"smallint", "smallserial", "int2"} -> Leaf("I16", "i16")
      [] db_type \in {"int", "integer", "serial", "int4"} -> Leaf("I32", "i32")
      [] db_type \in {"bigint", "bigserial", "int8"} -> Leaf("I64", "i64")
      [] db_type \in {"real", "float4"} -> Leaf("F32", "f32")
      [] db_type \in {"double precision", "float8"} -> Leaf("F64", "f64")
      [] db_type \in {"varchar", "char(n)", "text", "name", "character varying",
                      "character", "citext", "bpchar"} -> Leaf("String", "String")
      [] db_type = "bytea" -> Leaf("ByteArray", "Vec<u8>")
      [] db_type = "void" -> Leaf("Void", "()")
      [] db_type = "uuid" -> Leaf("Uuid", "uuid::Uuid")
      [] db_type = "date" -> Leaf("Date", "chrono::NaiveDate")
      [] db_type \in {"time without time zone", "time with time zone", "time"} ->
            Leaf("Time", "chrono::NaiveTime")
      [] db_type \in {"timestamp without time zone", "timestamp"} ->
            Leaf("Timestamp", "chrono::NaiveDateTime")
      [] db_type \in {"timestamp with time zone", "timestamptz"} ->
            Leaf("TimestampWithTz", "chrono::DateTime<Utc>")
      [] db_type = "numeric" -> Leaf("Decimal", "rust_decimal::Decimal")
      [] db_type \in {"inet", "cidr"} -> Leaf("IpNetwork", "ipnetwork::IpNetwork")
      [] db_type \in {"bit", "varbit", "bit varying"} -> Leaf("Bit", "bit_vec::BitVec")
      [] db_type = "interval" -> Leaf("Interval", "PgInterval")
      [] db_type = "int4range" -> TypeRange(Leaf("I32", "i32"))
      [] db_type = "int8range" -> TypeRange(Leaf("I64", "i64"))
      [] db_type = "tsrange" -> TypeRange(Leaf("Timestamp", "chrono::NaiveDateTime"))
      [] db_type = "tstzrange" -> TypeRange(Leaf("TimestampWithTz", "chrono::DateTime<Utc>"))
      [] db_type = "daterange" -> TypeRange(Leaf("Date", "chrono::NaiveDate"))
      [] db_type = "numrange" -> TypeRange(Leaf("Decimal", "rust_decimal::Decimal"))
      [] db_type = "money" -> Leaf("Money", "PgMoney")
      [] db_type = "ltree" -> Leaf("Tree", "PgLTree")
      [] db_type = "lquery" -> Leaf("Query", "PgLQuery")
      [] OTHER -> CatchAll(db_type)

\* the names the match of type_name_from lists explicitly
MatchedNames ==
    {"bool", "boolean", "char", "smallint", "smallserial", "int2", "int", "integer",
     "serial", "int4", "bigint", "bigserial", "int8", "real", "float4",
     "double precision", "float8", "varchar", "char(n)", "text", "name",
     "character varying", "character", "citext", "bpchar", "bytea", "void", "uuid",
     "date", "time without time zone", "time with time zone", "time",
     "timestamp without time zone", "timestamp", "timestamp with time zone",
     "timestamptz", "numeric", "inet", "cidr", "bit", "varbit", "bit varying",
     "interval", "int4range", "int8range", "tsrange", "tstzrange", "daterange",
     "numrange", "money", "ltree", "lquery"}

RangeNamesOfMapper ==
    {"int4range", "int8range", "tsrange", "tstzrange", "daterange", "numrange"}

\* str::contains("::") and str::starts_with("postgres_types::") on the names of the model
PathNames == {"postgres_types::PgLTree", "geo::Point"}
ContainsPathSep(name) == name \in PathNames
StartsWithPostgresTypes(name) == name \in {"postgres_types::PgLTree"}

\* ------------------------------------------------------------------------
\* Snippet

\* Snippet::new
NewSnippet(id) == [id |-> id, imports |-> {}, code |-> <<>>, dependencies |-> {}]

\* an add_import that records nothing
AddImportDropped(snippet, import) == snippet

\* Snippet::add_import
add_import(snippet, import) == [snippet EXCEPT !.imports = @ \cup {import}]

\* an add_dependency that records nothing
AddDependencyDropped(snippet, dependency) == snippet

\* Snippet::add_dependency
add_dependency(snippet, dependency) == [snippet EXCEPT !.dependencies = @ \cup {dependency}]

\* Generator::add_type_imports
RECURSIVE add_type_imports(_, _)
add_type_imports(snippet, rust_type) ==
    CASE rust_type.kind = "Uuid" -> add_import(snippet, "uuid::Uuid")
      [] rust_type.kind = "Date" -> add_import(snippet, "chrono::NaiveDate")
      [] rust_type.kind = "Time" -> add_import(snippet, "chrono::NaiveTime")
      [] rust_type.kind = "Timestamp" -> add_import(snippet, "chrono::NaiveDateTime")
      [] rust_type.kind = "TimestampWithTz" -> add_import(snippet, "chrono::{DateTime, Utc}")
      [] rust_type.kind = "Decimal" -> add_import(snippet, "rust_decimal::Decimal")
      [] rust_type.kind = "IpNetwork" -> add_import(snippet, "ipnetwork::IpNetwork")
      [] rust_type.kind = "Json" -> add_import(snippet, "serde_json::Value")
      [] rust_type.kind = "Tree" -> add_import(snippet, "postgres_types::LTree")
      [] rust_type.kind = "Query" -> add_import(snippet, "postgres_types::TSQuery")
      [] rust_type.kind = "Option" -> add_type_imports(snippet, rust_type.inner)
      [] rust_type.kind = "Vector" -> add_type_imports(snippet, rust_type.inner)
      [] rust_type.kind = "Range" ->
            add_type_imports(add_import(snippet, "std::ops::Range"), rust_type.inner)
      [] rust_type.kind = "Custom" ->
            IF ~ContainsPathSep(rust_type.name)
            THEN add_dependency(snippet, rust_type.name)
            ELSE IF StartsWithPostgresTypes(rust_type.name)
                 THEN add_import(snippet, rust_type.name)
                 ELSE snippet
      [] OTHER -> snippet

\* Generator::format_name
format_name(sing, name) == IF sing THEN to_singular(name) ELSE name

\* ------------------------------------------------------------------------
\* database::convert

\* a conversion that loses is_nullable
ColumnFromNullableLost(val) ==
    [name |-> val.column_name, udt_name |-> val.udt_name,
     is_nullable |-> FALSE, foreign_key_table |-> val.foreign_key_table]

\* impl From<TableColumn> for Column (the fields the generator reads)
ColumnFrom(val) ==
    [name |-> val.column_name, udt_name |-> val.udt_name,
     is_nullable |-> val.is_nullable, foreign_key_table |-> val.foreign_key_table]

\* a fold that inserts a fresh list for every row: acc.insert(table_name, vec![column.into()])
TableEntriesOverwritten(rows) ==
    [n \in {rows[i].table_name : i \in DOMAIN rows} |->
        LET Mine(r) == r.table_name = n
            mine == SelectSeq(rows, Mine)
        IN <<ColumnFrom(mine[Len(mine)])>>]

\* the fold of to_tables: acc.entry(table_name).or_default().push(column.into())
TableEntries(rows) ==
    [n \in {rows[i].table_name : i \in DOMAIN rows} |->
        LET Mine(r) == r.table_name = n
            mine == SelectSeq(rows, Mine)
        IN [i \in DOMAIN mine |-> ColumnFrom(mine[i])]]

\* TableConverter::to_tables: every Vec<Table> the iteration of the HashMap can give
to_tables(rows) ==
    LET acc == TableEntries(rows)
    IN {[i \in DOMAIN o |-> [name |-> o[i], columns |-> acc[o[i]]]] : o \in Orders(DOMAIN acc)}

\* slice::sort_by with |a, b| a.order.total_cmp(&b.order): a stable sort
RECURSIVE InsertByOrder(_, _)
InsertByOrder(sorted, v) ==
    IF sorted = <<>> THEN <<v>>
    ELSE IF sorted[Len(sorted)].order <= v.order THEN Append(sorted, v)
    ELSE Append(InsertByOrder(SubSeq(sorted, 1, Len(sorted) - 1), v), sorted[Len(sorted)])

\* the values left in input order, the sort_by left out
Unsorted(values) == values

RECURSIVE SortByOrder(_)
SortByOrder(values) ==
    IF values = <<>> THEN <<>>
    ELSE InsertByOrder(SortByOrder(SubSeq(values, 1, Len(values) - 1)), values[Len(values)])

\* the fold of to_enums
EnumEntries(rows) ==
    [n \in {rows[i].name : i \in DOMAIN rows} |->
        LET Mine(r) == r.name = n
            mine == SelectSeq(rows, Mine)
        IN [i \in DOMAIN mine |-> [name |-> mine[i].value, order |-> mine[i].sort_order]]]

\* EnumConverter::to_enums
to_enums(rows) ==
    LET acc == EnumEntries(rows)
    IN {[i \in DOMAIN o |-> [name |-> o[i], values |-> SortByOrder(acc[o[i]])]] :
            o \in Orders(DOMAIN acc)}

\* a fold that puts each attribute in front of the list: insert(0, ..) for push(..)
CompositeEntriesReversed(rows) ==
    [n \in {rows[i].name : i \in DOMAIN rows} |->
        LET Mine(r) == r.name = n
            mine == SelectSeq(rows, Mine)
        IN [i \in DOMAIN mine |->
                [name |-> mine[Len(mine) + 1 - i].attribute_name,
                 data_type |-> mine[Len(mine) + 1 - i].data_type]]]

\* the fold of to_composite_types
CompositeEntries(rows) ==
    [n \in {rows[i].name : i \in DOMAIN rows} |->
        LET Mine(r) == r.name = n
            mine == SelectSeq(rows, Mine)
        IN [i \in DOMAIN mine |->
                [name |-> mine[i].attribute_name, data_type |-> mine[i].data_type]]]

\* a grouping that returns an entity of no name for every input
ToCompositeTypesSpurious(rows) == {<<[name |-> "", attributes |-> <<>>]>>}

\* CompositeTypeConverter::to_composite_types
to_composite_types(rows) ==
    LET acc == CompositeEntries(rows)
    IN {[i \in DOMAIN o |-> [name |-> o[i], attributes |-> acc[o[i]]]] :
            o \in Orders(DOMAIN acc)}

\* ------------------------------------------------------------------------
\* database::postgres

\* the rows the query of get_table_info returns: the one parameter $2 of
\* "c.table_name NOT IN ($2)" is bound to excluded_tables.join(",")
TableInfoRows(columns, excluded) ==
    LET param == Join(excluded, ",")
        Kept(r) == r.table_name # param
    IN SelectSeq(columns, Kept)

\* Database::get_table_info
get_table_info(columns, excluded) == to_tables(TableInfoRows(columns, excluded))

\* InfoProvider::get_schema: every DatabaseSchema the three queries can assemble
get_schema(enum_rows, composite_rows, columns, excluded) ==
    {[enumerations |-> e, composite_types |-> c, tables |-> t] :
        e \in to_enums(enum_rows),
        c \in to_composite_types(composite_rows),
        t \in get_table_info(columns, excluded)}

\* ------------------------------------------------------------------------
\* generator::code

\* an enum snippet that lists no variant
EnumSnippetNoVariants(e) ==
    [NewSnippet(to_pascal_case(e.name)) EXCEPT !.code =
        <<"#[derive(Debug, Clone, PartialEq, Eq)]",
          "pub enum " \o to_pascal_case(e.name) \o " {", "}">>]

\* the body of the map closure of code_from_enums
EnumSnippet(e) ==
    LET name == to_pascal_case(e.name)
    IN [NewSnippet(name) EXCEPT !.code =
            <<"#[derive(Debug, Clone, PartialEq, Eq)]", "pub enum " \o name \o " {">>
            \o [i \in DOMAIN e.values |-> "    " \o to_pascal_case(e.values[i].name) \o ","]
            \o <<"}">>]

\* Generator::code_from_enums
code_from_enums(enums) == [i \in DOMAIN enums |-> EnumSnippet(enums[i])]

\* the loop over composite.attributes of code_from_composites
RECURSIVE AttributeFields(_, _)
AttributeFields(snippet, attributes) ==
    IF attributes = <<>> THEN snippet
    ELSE LET attr == Head(attributes)
             rust_type == type_name_from(attr.data_type)
             with_imports == add_type_imports(snippet, rust_type)
             struct_field == "    pub " \o to_snake_case(attr.name) \o ": "
                                \o Display(rust_type) \o ","
         IN AttributeFields([with_imports EXCEPT !.code = Append(@, struct_field)],
                            Tail(attributes))

\* the body of the map closure of code_from_composites
CompositeSnippet(sing, composite) ==
    LET table_name == format_name(sing, composite.name)
        head == [NewSnippet(table_name) EXCEPT !.code =
                    <<"#[derive(Debug, Clone)]",
                      "pub struct " \o to_pascal_case(table_name) \o " {">>]
        body == AttributeFields(head, composite.attributes)
    IN [body EXCEPT !.code = Append(@, "}")]

\* Generator::code_from_composites
code_from_composites(sing, composites) ==
    [i \in DOMAIN composites |-> CompositeSnippet(sing, composites[i])]

\* the type of a column with the nullable wrapper left out
ColumnTypeUnwrapped(column) == type_name_from(column.udt_name)

\* the type of the field of a table column: type_name_from, wrapped when nullable
ColumnType(column) ==
    LET rust_type == type_name_from(column.udt_name)
    IN IF column.is_nullable THEN TypeOption(rust_type) ELSE rust_type

\* the loop over table.columns of code_from_tables
RECURSIVE ColumnFields(_, _, _)
ColumnFields(sing, snippet, columns) ==
    IF columns = <<>> THEN snippet
    ELSE LET column == Head(columns)
             with_fk == IF column.foreign_key_table # None
                        THEN add_dependency(snippet,
                                to_pascal_case(format_name(sing, column.foreign_key_table)))
                        ELSE snippet
             rust_type == ColumnType(column)
             with_imports == add_type_imports(with_fk, rust_type)
             struct_field == "    pub " \o to_snake_case(column.name) \o ": "
                                \o Display(rust_type) \o ","
         IN ColumnFields(sing, [with_imports EXCEPT !.code = Append(@, struct_field)],
                         Tail(columns))

\* the body of the map closure of code_from_tables
TableSnippet(sing, table) ==
    LET table_name == format_name(sing, table.name)
        head == [NewSnippet(table_name) EXCEPT !.code =
                    <<"#[derive(Debug, Clone)]",
                      "pub struct " \o to_pascal_case(table_name) \o " {">>]
        body == ColumnFields(sing, head, table.columns)
    IN [body EXCEPT !.code = Append(@, "}")]

\* Generator::code_from_tables
code_from_tables(sing, tables) == [i \in DOMAIN tables |-> TableSnippet(sing, tables[i])]

\* a generate_code that leaves the enums out
UnfinishedSnippetsTablesLast(sing, s) ==
    code_from_composites(sing, s.composite_types) \o code_from_tables(sing, s.tables)

\* the snippets of generate_code before the finalize loop
UnfinishedSnippets(sing, s) ==
    code_from_enums(s.enumerations) \o code_from_composites(sing, s.composite_types)
        \o code_from_tables(sing, s.tables)

\* a finalize that drains the two sets while it renders them
FinalizeClearsSets(snippet, import_order, dep_order) ==
    [snippet EXCEPT !.imports = {}, !.dependencies = {},
        !.code = [i \in DOMAIN import_order |-> "use " \o import_order[i] \o ";"]
                 \o [i \in DOMAIN dep_order |->
                        "use super::" \o to_pascal_case(dep_order[i]) \o ";"]
                 \o (IF DOMAIN import_order # {} \/ DOMAIN dep_order # {}
                     THEN <<"">> ELSE <<>>)
                 \o @]

\* a finalize that writes the blank line whether or not a `use` line was written
FinalizeAlwaysBlank(snippet, import_order, dep_order) ==
    [snippet EXCEPT !.code =
        [i \in DOMAIN import_order |-> "use " \o import_order[i] \o ";"]
        \o [i \in DOMAIN dep_order |-> "use super::" \o to_pascal_case(dep_order[i]) \o ";"]
        \o <<"">> \o @]

\* Snippet::finalize, the two HashSets iterated in the orders import_order and dep_order
finalize(snippet, import_order, dep_order) ==
    LET import_lines == [i \in DOMAIN import_order |-> "use " \o import_order[i] \o ";"]
        dep_lines == [i \in DOMAIN dep_order |->
                        "use super::" \o to_pascal_case(dep_order[i]) \o ";"]
        blank == IF snippet.imports # {} \/ snippet.dependencies # {} THEN <<"">> ELSE <<>>
    IN [snippet EXCEPT !.code = import_lines \o dep_lines \o blank \o @]

\* every result of Snippet::finalize: one per iteration order of the two HashSets
Finalized(snippet) ==
    {finalize(snippet, io, do) : io \in Orders(snippet.imports),
                                 do \in Orders(snippet.dependencies)}

\* every result of the finalize loop of generate_code over a list of snippets
RECURSIVE AllFinalized(_)
AllFinalized(list) ==
    IF list = <<>> THEN {<<>>}
    ELSE {<<h>> \o t : h \in Finalized(Head(list)), t \in AllFinalized(Tail(list))}

\* ------------------------------------------------------------------------
\* generator::runner

Header == <<"// Generated with autostruct", "// https://github.com/sound-systems/autostruct", "">>

\* output_dir.join(format!("{file_name}.rs"))
SourceFile(snippet) == to_snake_case(snippet.id) \o ".rs"

\* the text run writes to the file of a snippet
SourceText(snippet) == Header \o snippet.code

\* a pair whose type name is the snippet id as it is, to_pascal_case left out
ModuleNameRaw(snippet) == <<to_snake_case(snippet.id), snippet.id>>

\* the (file name, type name) pair run pushes for a snippet
ModuleName(snippet) == <<to_snake_case(snippet.id), to_pascal_case(snippet.id)>>

\* the text of mod.rs
ModContents(names) ==
    Header \o Flatten([i \in DOMAIN names |->
                        <<"mod " \o names[i][1] \o ";",
                          "pub use " \o names[i][1] \o "::" \o names[i][2] \o ";">>])

\* File::create followed by write_all: the file holds exactly text
WriteFile(fs, path, text) == (path :> text) @@ fs

\* ------------------------------------------------------------------------
\* The catalogs a run can meet

TableNames == {"user", "users"}

\* position of a table name in ORDER BY c.table_name
NameRank(n) == IF n = "user" THEN 1 ELSE 2

Col(name, udt, nullable, fk) ==
    [column_name |-> name, udt_name |-> udt, is_nullable |-> nullable, foreign_key_table |-> fk]

ColumnKinds ==
    {Col("id", "int4", FALSE, None),
     Col("email", "text", TRUE, None),
     Col("owner", "uuid", TRUE, "users"),
     Col("amount", "numeric", FALSE, "user"),
     Col("home", "users", FALSE, None)}

CatalogRows ==
    {[table_name |-> t, column_name |-> c.column_name, udt_name |-> c.udt_name,
      is_nullable |-> c.is_nullable, foreign_key_table |-> c.foreign_key_table] :
        t \in TableNames, c \in ColumnKinds}

\* the result of a query with ORDER BY c.table_name
OrderedByTable(rows) ==
    \A i \in DOMAIN rows : \A j \in DOMAIN rows :
        i < j => NameRank(rows[i].table_name) <= NameRank(rows[j].table_name)

Catalogs == {rows \in SeqsUpTo(CatalogRows, MaxRows) : OrderedByTable(rows)}

MoodRows ==
    <<[name |-> "mood", value |-> "happy", sort_order |-> 1],
      [name |-> "mood", value |-> "sad", sort_order |-> 2]>>

AddressRows ==
    <<[name |-> "addresses", attribute_name |-> "street", data_type |-> "text"],
      [name |-> "addresses", attribute_name |-> "zip_code", data_type |-> "int4"]>>

\* the user defined types of the schema: none, or one enum and one composite type
TypeCatalogs == {<<(<<>>), (<<>>)>>, <<MoodRows, AddressRows>>}

Init ==
    /\ catalog \in Catalogs
    /\ \E tc \in TypeCatalogs : enum_catalog = tc[1] /\ composite_catalog = tc[2]
    /\ excluded_tables \in SeqsUpTo(TableNames, MaxExcluded)
    /\ singular \in BOOLEAN
    /\ dir_exists \in BOOLEAN
    /\ pc = "start"
    /\ schema = NoSchema
    /\ snippets = <<>>
    /\ next_snippet = 0
    /\ second_pass = <<>>
    /\ files = <<>>
    /\ module_names = <<>>
    /\ result = None
    /\ call = NoCall
    /\ ret = NoReturn

inputs == <<catalog, enum_catalog, composite_catalog, excluded_tables, singular>>
unit == <<call, ret>>

\* generate_code: provider.get_schema() returns Ok(schema)
FetchSchema ==
    /\ pc = "start"
    /\ schema' \in get_schema(enum_catalog, composite_catalog, catalog, excluded_tables)
    /\ pc' = "generate"
    /\ UNCHANGED <<inputs, unit, snippets, next_snippet, second_pass, dir_exists, files,
                   module_names, result>>

\* a run that creates the target directory before it calls generate_code
FetchSchemaFailsDirCreated ==
    /\ pc = "start"
    /\ dir_exists' = TRUE
    /\ result' = "Err(get_schema)"
    /\ pc' = "done"
    /\ UNCHANGED <<inputs, unit, schema, snippets, next_snippet, second_pass, files,
                   module_names>>

\* generate_code: provider.get_schema() returns Err, `?` returns it from generate_code and run
FetchSchemaFails ==
    /\ pc = "start"
    /\ result' = "Err(get_schema)"
    /\ pc' = "done"
    /\ UNCHANGED <<inputs, unit, schema, snippets, next_snippet, second_pass, dir_exists,
                   files, module_names>>

\* generate_code: code_from_enums, code_from_composites, code_from_tables
GenerateSnippets ==
    /\ pc = "generate"
    /\ snippets' = UnfinishedSnippets(singular, schema)
    /\ next_snippet' = 1
    /\ pc' = "finalize"
    /\ UNCHANGED <<inputs, unit, schema, second_pass, dir_exists, files, module_names, result>>

\* generate_code: one iteration of `for snippet in &mut snippets { snippet.finalize() }`
FinalizeSnippet ==
    /\ pc = "finalize"
    /\ next_snippet <= Len(snippets)
    /\ \E f \in Finalized(snippets[next_snippet]) :
            snippets' = [snippets EXCEPT ![next_snippet] = f]
    /\ next_snippet' = next_snippet + 1
    /\ UNCHANGED <<inputs, unit, pc, schema, second_pass, dir_exists, files, module_names,
                   result>>

\* a generate_code that returns while its finalize loop has snippets left
ReturnSnippetsEarly ==
    /\ pc = "finalize"
    /\ pc' = "mkdir"
    /\ UNCHANGED <<inputs, unit, schema, snippets, next_snippet, second_pass, dir_exists,
                   files, module_names, result>>

\* generate_code returns Ok(snippets)
ReturnSnippets ==
    /\ pc = "finalize"
    /\ next_snippet > Len(snippets)
    /\ pc' = "mkdir"
    /\ UNCHANGED <<inputs, unit, schema, snippets, next_snippet, second_pass, dir_exists,
                   files, module_names, result>>

\* a second, independent generate_code whose provider returns the same schema
GenerateCodeAgain ==
    /\ pc = "mkdir"
    /\ second_pass' \in AllFinalized(UnfinishedSnippets(singular, schema))
    /\ pc' = "compared"
    /\ UNCHANGED <<inputs, unit, schema, snippets, next_snippet, dir_exists, files,
                   module_names, result>>

\* run: create_dir_all unless the directory exists
CreateDir ==
    /\ pc = "mkdir"
    /\ dir_exists' = TRUE
    /\ next_snippet' = 1
    /\ pc' = "write"
    /\ UNCHANGED <<inputs, unit, schema, snippets, second_pass, files, module_names, result>>

\* run: create_dir_all fails
CreateDirFails ==
    /\ pc = "mkdir"
    /\ ~dir_exists
    /\ result' = "Err(create_dir_all)"
    /\ pc' = "done"
    /\ UNCHANGED <<inputs, unit, schema, snippets, next_snippet, second_pass, dir_exists,
                   files, module_names>>

\* run: one iteration of the loop over code_snippets, both file operations succeed
WriteSnippet ==
    /\ pc = "write"
    /\ next_snippet <= Len(snippets)
    /\ module_names' = Append(module_names, ModuleName(snippets[next_snippet]))
    /\ files' = WriteFile(files, SourceFile(snippets[next_snippet]),
                          SourceText(snippets[next_snippet]))
    /\ next_snippet' = next_snippet + 1
    /\ UNCHANGED <<inputs, unit, pc, schema, snippets, second_pass, dir_exists, result>>

\* run: File::create of the snippet's file fails
CreateFileFails ==
    /\ pc = "write"
    /\ next_snippet <= Len(snippets)
    /\ module_names' = Append(module_names, ModuleName(snippets[next_snippet]))
    /\ result' = "Err(create)"
    /\ pc' = "done"
    /\ UNCHANGED <<inputs, unit, schema, snippets, next_snippet, second_pass, dir_exists,
                   files>>

\* run: File::create succeeded (the file exists and is truncated), write_all fails
\* after writing some part of the text
WriteFileFails ==
    /\ pc = "write"
    /\ next_snippet <= Len(snippets)
    /\ module_names' = Append(module_names, ModuleName(snippets[next_snippet]))
    /\ \E n \in 0..(Len(SourceText(snippets[next_snippet])) - 1) :
            files' = WriteFile(files, SourceFile(snippets[next_snippet]),
                               SubSeq(SourceText(snippets[next_snippet]), 1, n))
    /\ result' = "Err(write_all)"
    /\ pc' = "done"
    /\ UNCHANGED <<inputs, unit, schema, snippets, next_snippet, second_pass, dir_exists>>

\* run: mod.rs is created and written, run returns Ok(())
WriteMod ==
    /\ pc = "write"
    /\ next_snippet > Len(snippets)
    /\ files' = WriteFile(files, "mod.rs", ModContents(module_names))
    /\ result' = "Ok"
    /\ pc' = "done"
    /\ UNCHANGED <<inputs, unit, schema, snippets, next_snippet, second_pass, dir_exists,
                   module_names>>

\* run: File::create of mod.rs fails
CreateModFails ==
    /\ pc = "write"
    /\ next_snippet > Len(snippets)
    /\ result' = "Err(create mod.rs)"
    /\ pc' = "done"
    /\ UNCHANGED <<inputs, unit, schema, snippets, next_snippet, second_pass, dir_exists,
                   files, module_names>>

\* run: mod.rs is created, write_all fails after writing some part of it
WriteModFails ==
    /\ pc = "write"
    /\ next_snippet > Len(snippets)
    /\ \E n \in 0..(Len(ModContents(module_names)) - 1) :
            files' = WriteFile(files, "mod.rs", SubSeq(ModContents(module_names), 1, n))
    /\ result' = "Err(write mod.rs)"
    /\ pc' = "done"
    /\ UNCHANGED <<inputs, unit, schema, snippets, next_snippet, second_pass, dir_exists,
                   module_names>>

Next ==
    \/ FetchSchema
    \/ FetchSchemaFails
    \/ GenerateSnippets
    \/ FinalizeSnippet
    \/ ReturnSnippets
    \/ GenerateCodeAgain
    \/ CreateDir
    \/ CreateDirFails
    \/ WriteSnippet
    \/ CreateFileFails
    \/ WriteFileFails
    \/ WriteMod
    \/ CreateModFails
    \/ WriteModFails

Spec == Init /\ [][Next]_vars

\* ------------------------------------------------------------------------
\* Direct calls of the pure functions

quiet ==
    /\ catalog = <<>>
    /\ enum_catalog = <<>>
    /\ composite_catalog = <<>>
    /\ excluded_tables = <<>>
    /\ dir_exists = FALSE
    /\ pc = "call"
    /\ schema = NoSchema
    /\ snippets = <<>>
    /\ next_snippet = 0
    /\ second_pass = <<>>
    /\ files = <<>>
    /\ module_names = <<>>
    /\ result = None
    /\ ret = NoReturn

run_state == <<catalog, enum_catalog, composite_catalog, excluded_tables, singular, pc,
               schema, snippets, next_snippet, second_pass, dir_exists, files,
               module_names, result>>

\* native type names: every name the match lists, array names, names of user defined
\* types, names of no type the mapper knows, the empty string
ArrayNames == {"_int4", "__int4", "_text"}
GeometricNames == {"point", "line", "lseg", "box", "path", "polygon", "circle"}
TypeNames ==
    MatchedNames \cup ArrayNames \cup GeometricNames \cup {"", "xyz", "mood", "users", "json"}

TypeColumns ==
    {[name |-> "id", udt_name |-> u, is_nullable |-> n, foreign_key_table |-> fk] :
        u \in TypeNames, n \in BOOLEAN, fk \in {None, "users"}}

\* enums and composite types with a singular and with a plural name
NamedEnums ==
    {[name |-> n, values |-> <<[name |-> "happy", order |-> 1], [name |-> "sad", order |-> 2]>>] :
        n \in {"mood", "moods"}}

NamedComposites ==
    {[name |-> n, attributes |-> <<[name |-> "zip_code", data_type |-> d]>>] :
        n \in {"address", "addresses"}, d \in {"int4", "text", "mood"}}

\* the descriptors without a wrapper: those type_name_from returns, and Json
LeafTypes ==
    {type_name_from(n) : n \in (MatchedNames \cup {"users"}) \ RangeNamesOfMapper}
        \cup {Leaf("Json", "serde_json::Value"), TypeCustom("postgres_types::PgLTree"),
               TypeCustom("geo::Point")}

\* the descriptors with at most depth wrappers around a leaf
RECURSIVE NestedTypes(_)
NestedTypes(depth) ==
    IF depth = 0 THEN LeafTypes
    ELSE LET inner == NestedTypes(depth - 1)
         IN inner \cup {TypeOption(t) : t \in inner} \cup {TypeVector(t) : t \in inner}
                  \cup {TypeRange(t) : t \in inner}

InitTypes ==
    /\ quiet
    /\ singular \in BOOLEAN
    /\ call \in {[fn |-> "type_name_from", arg |-> n] : n \in TypeNames}
            \cup {[fn |-> "code_from_tables",
                   arg |-> <<[name |-> "users", columns |-> <<c>>]>>] : c \in TypeColumns}
            \cup {[fn |-> "code_from_enums", arg |-> <<e>>] : e \in NamedEnums}
            \cup {[fn |-> "code_from_composites", arg |-> <<c>>] : c \in NamedComposites}
            \cup {[fn |-> "add_type_imports", arg |-> t] : t \in NestedTypes(MaxDepth)}

\* provider.type_name_from(db_type)
CallTypeNameFrom ==
    /\ call.fn = "type_name_from" /\ ~ret.done
    /\ ret' = Returned(type_name_from(call.arg))
    /\ UNCHANGED <<run_state, call>>

\* generator.code_from_tables(tables)
CallCodeFromTables ==
    /\ call.fn = "code_from_tables" /\ ~ret.done
    /\ ret' = Returned(code_from_tables(singular, call.arg))
    /\ UNCHANGED <<run_state, call>>

\* generator.code_from_enums(enums)
CallCodeFromEnums ==
    /\ call.fn = "code_from_enums" /\ ~ret.done
    /\ ret' = Returned(code_from_enums(call.arg))
    /\ UNCHANGED <<run_state, call>>

\* generator.code_from_composites(composites)
CallCodeFromComposites ==
    /\ call.fn = "code_from_composites" /\ ~ret.done
    /\ ret' = Returned(code_from_composites(singular, call.arg))
    /\ UNCHANGED <<run_state, call>>

\* generator.add_type_imports(&mut snippet, &rust_type) on a new snippet
CallAddTypeImports ==
    /\ call.fn = "add_type_imports" /\ ~ret.done
    /\ ret' = Returned(add_type_imports(NewSnippet("T"), call.arg))
    /\ UNCHANGED <<run_state, call>>

NextTypes ==
    \/ CallAddTypeImports
    \/ CallTypeNameFrom
    \/ CallCodeFromTables
    \/ CallCodeFromEnums
    \/ CallCodeFromComposites

SpecTypes == InitTypes /\ [][NextTypes]_vars

\* rows of any order, also with the rows of two tables interleaved
GroupRows ==
    {[table_name |-> t, column_name |-> c, udt_name |-> "int4", is_nullable |-> FALSE,
      foreign_key_table |-> None] : t \in {"user", "users", "posts"}, c \in {"id", "email"}}

InitTables ==
    /\ quiet
    /\ singular = FALSE
    /\ call \in {[fn |-> "to_tables", arg |-> rows] : rows \in SeqsUpTo(GroupRows, MaxGroupRows)}

\* rows.to_tables()
CallToTables ==
    /\ call.fn = "to_tables" /\ ~ret.done
    /\ \E v \in to_tables(call.arg) : ret' = Returned(v)
    /\ UNCHANGED <<run_state, call>>

NextTables == CallToTables

SpecTables == InitTables /\ [][NextTables]_vars

EnumRows ==
    {[name |-> n, value |-> v, sort_order |-> o] :
        n \in {"mood", "size"}, v \in {"happy", "sad", "ok"}, o \in {0, 1}}

InitEnums ==
    /\ quiet
    /\ singular = FALSE
    /\ call \in {[fn |-> "to_enums", arg |-> rows] : rows \in SeqsUpTo(EnumRows, MaxEnumRows)}

\* rows.to_enums()
CallToEnums ==
    /\ call.fn = "to_enums" /\ ~ret.done
    /\ \E v \in to_enums(call.arg) : ret' = Returned(v)
    /\ UNCHANGED <<run_state, call>>

\* generator.code_from_enums on the enums to_enums returned
GenerateEnumSnippets ==
    /\ call.fn = "to_enums" /\ ret.done /\ pc = "call"
    /\ snippets' = code_from_enums(ret.val)
    /\ pc' = "generated"
    /\ UNCHANGED <<inputs, unit, schema, next_snippet, second_pass, dir_exists, files,
                   module_names, result>>

NextEnums == CallToEnums \/ GenerateEnumSnippets

SpecEnums == InitEnums /\ [][NextEnums]_vars

CompositeRows ==
    {[name |-> n, attribute_name |-> a, data_type |-> "text"] :
        n \in {"address", "addresses"}, a \in {"street", "zip_code"}}

\* each of the three grouping functions on a row list, the empty one included
InitGroups ==
    /\ quiet
    /\ singular = FALSE
    /\ call \in {[fn |-> "to_tables", arg |-> rows] : rows \in SeqsUpTo(GroupRows, MaxGroupRows)}
            \cup {[fn |-> "to_enums", arg |-> rows] : rows \in SeqsUpTo(EnumRows, MaxEnumRows)}
            \cup {[fn |-> "to_composite_types", arg |-> rows] :
                        rows \in SeqsUpTo(CompositeRows, MaxGroupRows)}

\* rows.to_composite_types()
CallToCompositeTypes ==
    /\ call.fn = "to_composite_types" /\ ~ret.done
    /\ \E v \in to_composite_types(call.arg) : ret' = Returned(v)
    /\ UNCHANGED <<run_state, call>>

NextGroups == CallToTables \/ CallToEnums \/ CallToCompositeTypes

SpecGroups == InitGroups /\ [][NextGroups]_vars

\* snippets as code_from_* leave them: a body, some imports, some dependencies
PlainSnippets ==
    {[id |-> "users", imports |-> i, dependencies |-> d, code |-> c] :
        i \in SUBSET {"uuid::Uuid", "rust_decimal::Decimal"},
        d \in SUBSET {"User", "mood"},
        c \in {<<"#[derive(Debug, Clone)]", "pub struct Users {", "}">>,
                <<"#[derive(Debug, Clone)]", "pub struct Users {", "    pub id: i32,", "}">>}}

InitFinalize ==
    /\ quiet
    /\ singular = FALSE
    /\ call \in {[fn |-> "finalize", arg |-> s] : s \in PlainSnippets}

\* snippet.finalize(): ret holds the snippet after each finalize so far
CallFinalize ==
    /\ call.fn = "finalize" /\ ~ret.done
    /\ \E f \in Finalized(call.arg) : ret' = Returned(<<f>>)
    /\ UNCHANGED <<run_state, call>>

\* snippet.finalize() on the snippet the first finalize left
CallFinalizeAgain ==
    /\ call.fn = "finalize" /\ ret.done /\ Len(ret.val) = 1
    /\ \E f \in Finalized(ret.val[1]) : ret' = Returned(Append(ret.val, f))
    /\ UNCHANGED <<run_state, call>>

NextFinalize == CallFinalize \/ CallFinalizeAgain

SpecFinalize == InitFinalize /\ [][NextFinalize]_vars

\* ------------------------------------------------------------------------
\* Claims

\* the `use` lines the model can render, in ascending byte order
SortedUseLines ==
    <<"use chrono::NaiveDate;",
      "use chrono::NaiveDateTime;",
      "use chrono::NaiveTime;",
      "use chrono::{DateTime, Utc};",
      "use ipnetwork::IpNetwork;",
      "use postgres_types::LTree;",
      "use postgres_types::PgLTree;",
      "use postgres_types::TSQuery;",
      "use rust_decimal::Decimal;",
      "use serde_json::Value;",
      "use std::ops::Range;",
      "use super::;",
      "use super::Address;",
      "use super::Addresses;",
      "use super::Int4;",
      "use super::Json;",
      "use super::Mood;",
      "use super::Point;",
      "use super::Posts;",
      "use super::User;",
      "use super::Users;",
      "use super::Xyz;",
      "use uuid::Uuid;">>

LineRank(line) == CHOOSE i \in DOMAIN SortedUseLines : SortedUseLines[i] = line

\* the lines are in ascending lexicographic order and no line occurs twice
StrictlyAscending(lines) ==
    \A i \in DOMAIN lines : \A j \in DOMAIN lines :
        i < j => LineRank(lines[i]) < LineRank(lines[j])

ImportLines(snippet) == SubSeq(snippet.code, 1, Cardinality(snippet.imports))

DependencyLines(snippet) ==
    SubSeq(snippet.code, Cardinality(snippet.imports) + 1,
           Cardinality(snippet.imports) + Cardinality(snippet.dependencies))

\* C1: two independent runs of generate_code over the same DatabaseSchema give, for
\* every entity, byte-identical snippet text, the order of the `use` lines included.
C1_TwoPassesIdentical == pc = "compared" => second_pass = snippets

\* C2: in every finalized snippet the import lines are in ascending lexicographic
\* order, one per distinct import, and the dependency lines are in ascending
\* lexicographic order with no two identical lines.
C2_UseLinesSorted ==
    pc = "mkdir" =>
        \A i \in DOMAIN snippets :
            /\ StrictlyAscending(ImportLines(snippets[i]))
            /\ StrictlyAscending(DependencyLines(snippets[i]))

\* C3: the field of a table column has the descriptor Option(map(udt_name)) when the
\* column is nullable and map(udt_name) when it is not, map being type_name_from; the
\* wrapper is applied once and leaves the inner descriptor as it is.
C3_NullableWrapsOnce ==
    (call.fn = "code_from_tables" /\ ret.done) =>
        \A t \in DOMAIN call.arg : \A j \in DOMAIN call.arg[t].columns :
            LET column == call.arg[t].columns[j]
                base == type_name_from(column.udt_name)
                expected == IF column.is_nullable THEN TypeOption(base) ELSE base
            IN /\ ColumnType(column) = expected
               /\ column.is_nullable =>
                    ColumnType(column) =
                        TypeOption(ColumnType([column EXCEPT !.is_nullable = FALSE]))
               /\ ret.val[t].code[2 + j] =
                    "    pub " \o to_snake_case(column.name) \o ": " \o Display(expected) \o ","

C3_Witness ==
    /\ call.fn = "code_from_tables" /\ ret.done
    /\ call.arg[1].columns[1].is_nullable
    /\ call.arg[1].columns[1].udt_name = "int4"
    /\ ret.val[1].code[3] = "    pub id: Option<i32>,"

\* the name of an array type with one array marker removed
StripOneMarker(name) ==
    CASE name = "_int4" -> "int4"
      [] name = "__int4" -> "_int4"
      [] name = "_text" -> "text"
      [] OTHER -> name

\* C4: for every array-marked native type name, type_name_from returns
\* Vector(map(name with one marker stripped)): "_int4" gives Vector(I32), and a
\* nullable "_int4" column gives Option(Vector(I32)).
C4_ArrayMapsToVector ==
    /\ (call.fn = "type_name_from" /\ ret.done /\ call.arg \in ArrayNames) =>
            ret.val = TypeVector(type_name_from(StripOneMarker(call.arg)))
    /\ (call.fn = "code_from_tables" /\ ret.done
            /\ call.arg[1].columns[1].udt_name = "_int4"
            /\ call.arg[1].columns[1].is_nullable) =>
            ret.val[1].code[3] = "    pub id: Option<Vec<i32>>,"

LeafKinds ==
    {"Bit", "Bool", "I8", "I16", "I32", "I64", "U32", "F32", "F64", "Uuid", "Date", "Time",
     "Timestamp", "TimestampWithTz", "Decimal", "IpNetwork", "String", "Json", "Xml",
     "ByteArray", "Unit", "Interval", "Money", "Tree", "Query", "Void", "Custom"}

\* t is a value of rust::Type
RECURSIVE IsType(_)
IsType(t) ==
    \/ t.kind \in LeafKinds
    \/ t.kind \in Wrappers /\ IsType(t.inner)

\* C5: type_name_from returns a descriptor for every native type name, the empty
\* string included, and never an error; a name no arm of the match lists gives Custom
\* of that name, and the snippet of a table with such a column is generated whole.
C5_MapperTotal ==
    /\ (call.fn = "type_name_from" /\ ret.done) =>
            /\ IsType(ret.val)
            /\ call.arg \notin MatchedNames => ret.val = TypeCustom(call.arg)
    /\ (call.fn = "code_from_tables" /\ ret.done) =>
            /\ Len(ret.val) = Len(call.arg)
            /\ \A t \in DOMAIN ret.val :
                    /\ Len(ret.val[t].code) = Len(call.arg[t].columns) + 3
                    /\ ret.val[t].code[Len(ret.val[t].code)] = "}"
                    /\ \A j \in DOMAIN call.arg[t].columns :
                            IsType(ColumnType(call.arg[t].columns[j]))
    /\ (call.fn \in {"type_name_from", "code_from_tables"} /\ ~ret.done) => ENABLED NextTypes

C5_Witness ==
    /\ call.fn = "type_name_from" /\ ret.done
    /\ call.arg = ""
    /\ ret.val = TypeCustom("")

\* C6: the names of the Tables to_tables returns are the distinct table_name values of
\* the input rows, no two Tables share a name, and every Table has as many Columns as
\* the input has rows of its name, each the Column of such a row.
C6_GroupingBijection ==
    (call.fn = "to_tables" /\ ret.done) =>
        LET rows == call.arg
            tables == ret.val
        IN /\ {tables[i].name : i \in DOMAIN tables} = {rows[k].table_name : k \in DOMAIN rows}
           /\ \A i \in DOMAIN tables : \A j \in DOMAIN tables :
                    i # j => tables[i].name # tables[j].name
           /\ \A i \in DOMAIN tables :
                    /\ Len(tables[i].columns) =
                            Cardinality({k \in DOMAIN rows : rows[k].table_name = tables[i].name})
                    /\ \A c \in DOMAIN tables[i].columns :
                            \E k \in DOMAIN rows :
                                /\ rows[k].table_name = tables[i].name
                                /\ ColumnFrom(rows[k]) = tables[i].columns[c]

C6_Witness ==
    /\ call.fn = "to_tables" /\ ret.done
    /\ Len(call.arg) = 3
    /\ call.arg[1].table_name = call.arg[3].table_name
    /\ call.arg[1].table_name # call.arg[2].table_name
    /\ Len(ret.val) = 2
    /\ \E i \in DOMAIN ret.val : Len(ret.val[i].columns) = 2

\* the values of the rows of enum n whose sort order is o, in input order
RowValuesOfOrder(rows, n, o) ==
    LET Mine(r) == r.name = n /\ r.sort_order = o
        mine == SelectSeq(rows, Mine)
    IN [i \in DOMAIN mine |-> [name |-> mine[i].value, order |-> mine[i].sort_order]]

\* the values of an Enum whose sort order is o
ValuesOfOrder(values, o) ==
    LET Mine(v) == v.order = o
    IN SelectSeq(values, Mine)

MoodHappy == [name |-> "mood", value |-> "happy", sort_order |-> 0]
MoodSad == [name |-> "mood", value |-> "sad", sort_order |-> 1]

\* C7: for every order of the input rows, the values of each Enum of to_enums are
\* non-decreasing by sort order and values of equal sort order keep their input order;
\* the rows {happy, 0} and {sad, 1} of "mood" give [happy, sad] in either input order.
C7_EnumValuesSorted ==
    (call.fn = "to_enums" /\ ret.done) =>
        /\ \A e \in DOMAIN ret.val :
                LET values == ret.val[e].values
                IN /\ \A i \in DOMAIN values : \A j \in DOMAIN values :
                            i < j => values[i].order <= values[j].order
                   /\ \A o \in {call.arg[k].sort_order : k \in DOMAIN call.arg} :
                            ValuesOfOrder(values, o) =
                                RowValuesOfOrder(call.arg, ret.val[e].name, o)
        /\ call.arg \in {<<MoodHappy, MoodSad>>, <<MoodSad, MoodHappy>>} =>
                ret.val = <<[name |-> "mood",
                             values |-> <<[name |-> "happy", order |-> 0],
                                          [name |-> "sad", order |-> 1]>>]>>

C7_Witness ==
    /\ call.fn = "to_enums" /\ ret.done
    /\ call.arg = <<MoodSad, MoodHappy>>
    /\ ret.val[1].values = <<[name |-> "happy", order |-> 0], [name |-> "sad", order |-> 1]>>

\* C8: for an exclusion list of any length, no Table whose name is in the list is in
\* the schema get_schema returns, and no snippet and no file is generated for it.
C8_ExcludedTablesAbsent ==
    /\ \A i \in DOMAIN schema.tables : schema.tables[i].name \notin Elems(excluded_tables)
    /\ \A i \in DOMAIN snippets :
            snippets[i].id \notin {format_name(singular, excluded_tables[k]) :
                                    k \in DOMAIN excluded_tables}

\* C9: when get_schema fails, generate_code returns the error and no snippets, and run
\* ends with it: the target directory is not created and no entity file and no mod.rs
\* is written, neither by the failing step nor after it.
C9_FetchFailureAborts ==
    [][result' = "Err(get_schema)" =>
            /\ pc' = "done"
            /\ snippets' = <<>>
            /\ module_names' = <<>>
            /\ dir_exists' = dir_exists
            /\ files' = files
            /\ files' = <<>>]_vars

C9_Witness ==
    /\ result = "Err(get_schema)"
    /\ pc = "done"
    /\ catalog # <<>>
    /\ ~dir_exists

\* the files of the snippets the write loop has reached
ReachedFiles == {SourceFile(snippets[j]) : j \in 1..next_snippet}

\* C10: when creating or writing the file of the k-th snippet fails, run returns the
\* error, no later snippet file and no mod.rs is written, and the files written for
\* snippets 1..k-1 are left in place with their text.
C10_EarlierFilesKept ==
    result \in {"Err(create)", "Err(write_all)"} =>
        /\ pc = "done"
        /\ DOMAIN files \subseteq ReachedFiles
        /\ \A j \in 1..(next_snippet - 1) :
                /\ SourceFile(snippets[j]) \in DOMAIN files
                /\ files[SourceFile(snippets[j])] = SourceText(snippets[j])

\* the public type identifiers the snippets of the model can declare
TypeIdents == {"User", "Users", "Mood", "Address", "Addresses"}

\* the snippet body declares the public type ident
Declares(snippet, ident) ==
    \/ "pub struct " \o ident \o " {" \in Elems(snippet.code)
    \/ "pub enum " \o ident \o " {" \in Elems(snippet.code)

\* C11: for every snippet of generate_code, the identifier mod.rs re-exports
\* (`pub use <file>::<Ident>`) is the public type identifier the snippet's body
\* declares, and mod.rs has exactly one `mod`/`pub use` pair per snippet.
C11_ManifestExact ==
    result = "Ok" =>
        /\ Len(files["mod.rs"]) = Len(Header) + 2 * Len(snippets)
        /\ \A i \in DOMAIN snippets :
              \E ident \in TypeIdents :
                /\ Declares(snippets[i], ident)
                /\ \A other \in TypeIdents \ {ident} : ~Declares(snippets[i], other)
                /\ files["mod.rs"][Len(Header) + 2 * i - 1] =
                        "mod " \o to_snake_case(snippets[i].id) \o ";"
                /\ files["mod.rs"][Len(Header) + 2 * i] =
                        "pub use " \o to_snake_case(snippets[i].id) \o "::" \o ident \o ";"

\* a successful run with singular names over an enum, a composite type and a table
C11_Witness ==
    /\ result = "Ok"
    /\ singular
    /\ Len(schema.enumerations) = 1
    /\ Len(schema.composite_types) = 1
    /\ Len(schema.tables) >= 1
    /\ "pub use address::Address;" \in Elems(files["mod.rs"])

\* the entity name after the singularization option and the case transformation
DeclaredName(sing, name) == to_pascal_case(IF sing THEN to_singular(name) ELSE name)

\* C12: with the singular option on, the declared type name of every table snippet,
\* every enum snippet and every composite type snippet is the case-transformed
\* singularized entity name; with the option off it is the case-transformed name.
C12_SingularUniform ==
    ret.done =>
        /\ call.fn \in {"code_from_tables", "code_from_composites"} =>
                ret.val[1].code[2] =
                    "pub struct " \o DeclaredName(singular, call.arg[1].name) \o " {"
        /\ call.fn = "code_from_enums" =>
                ret.val[1].code[2] =
                    "pub enum " \o DeclaredName(singular, call.arg[1].name) \o " {"

\* the column with its foreign key removed
WithoutForeignKey(column) == [column EXCEPT !.foreign_key_table = None]

\* C13: for every table column that declares a foreign-key target table, the table's
\* snippet records a dependency on the referenced entity's identifier, and the field
\* of the column is the one the same column gives without the foreign key: its type is
\* mapped from the column's own udt_name, wrapped in Option when nullable.
C13_ForeignKeyDependency ==
    (ret.done /\ call.fn = "code_from_tables"
        /\ call.arg[1].columns[1].foreign_key_table # None) =>
        LET column == call.arg[1].columns[1]
            plain == code_from_tables(singular,
                        <<[name |-> call.arg[1].name, columns |-> <<WithoutForeignKey(column)>>]>>)
        IN /\ DeclaredName(singular, column.foreign_key_table) \in ret.val[1].dependencies
           /\ ret.val[1].code = plain[1].code
           /\ ret.val[1].imports = plain[1].imports
           /\ (column.udt_name = "int4" /\ column.is_nullable) =>
                    ret.val[1].code[3] = "    pub id: Option<i32>,"
           /\ (column.udt_name = "int4" /\ ~column.is_nullable) =>
                    ret.val[1].code[3] = "    pub id: i32,"

\* the snippet of a table whose nullable int4 column references the table users
C13_Witness ==
    /\ ret.done
    /\ call.fn = "code_from_tables"
    /\ call.arg[1].columns[1].foreign_key_table = "users"
    /\ call.arg[1].columns[1].udt_name = "int4"
    /\ call.arg[1].columns[1].is_nullable
    /\ singular
    /\ ret.val[1].dependencies = {"User"}

\* generate_code has returned
Generated == pc \in {"mkdir", "compared", "write", "done"} /\ result # "Err(get_schema)"

\* C14: generate_code returns exactly one snippet per entity of the schema: as many
\* snippets as enums plus composite types plus tables, each id derived from one entity,
\* ordered enums first, then composite types, then tables, each group in schema order.
C14_OneSnippetPerEntity ==
    Generated =>
        LET ne == Len(schema.enumerations)
            nc == Len(schema.composite_types)
            nt == Len(schema.tables)
        IN /\ Len(snippets) = ne + nc + nt
           /\ \A i \in 1..ne : snippets[i].id = to_pascal_case(schema.enumerations[i].name)
           /\ \A i \in 1..nc :
                 snippets[ne + i].id = format_name(singular, schema.composite_types[i].name)
           /\ \A i \in 1..nt :
                 snippets[ne + nc + i].id = format_name(singular, schema.tables[i].name)
           /\ \A i \in 1..ne : Declares(snippets[i], to_pascal_case(schema.enumerations[i].name))
           /\ \A i \in 1..nt :
                 Declares(snippets[ne + nc + i],
                          to_pascal_case(format_name(singular, schema.tables[i].name)))

\* generate_code has returned the snippets of an enum, a composite type and two tables
C14_Witness ==
    /\ pc = "mkdir"
    /\ Len(schema.enumerations) = 1
    /\ Len(schema.composite_types) = 1
    /\ Len(schema.tables) = 2
    /\ Len(snippets) = 4

\* C15: after a successful run into a target directory that held no files, the
\* directory holds exactly one `<snake_case(id)>.rs` file per snippet plus mod.rs,
\* (enums + composite types + tables) + 1 files, and every snippet's file holds that
\* snippet's text: none is overwritten by another snippet's file or by mod.rs.
C15_OneFilePerSnippet ==
    result = "Ok" =>
        /\ Cardinality(DOMAIN files) =
                Len(schema.enumerations) + Len(schema.composite_types) + Len(schema.tables) + 1
        /\ DOMAIN files = {to_snake_case(snippets[i].id) \o ".rs" : i \in DOMAIN snippets}
                            \cup {"mod.rs"}
        /\ \A i \in DOMAIN snippets :
                files[to_snake_case(snippets[i].id) \o ".rs"] = Header \o snippets[i].code

\* native type names of no category of the type mapper
UncategorizedNames == {"ltree", "xyz", "mood", "users"}

\* C16: a native type name matching no category maps to the custom-named descriptor
\* carrying the pascal-cased name ("ltree" maps to Custom("Ltree")), generation does
\* not fail, and the snippet records the name as a custom dependency.
C16_UnmatchedIsPascalCustom ==
    ret.done =>
        /\ (call.fn = "type_name_from" /\ call.arg \in UncategorizedNames) =>
                ret.val = TypeCustom(to_pascal_case(call.arg))
        /\ (call.fn = "code_from_tables"
                /\ call.arg[1].columns[1].udt_name \in UncategorizedNames) =>
                LET column == call.arg[1].columns[1]
                    ident == to_pascal_case(column.udt_name)
                IN /\ Len(ret.val) = 1
                   /\ ident \in ret.val[1].dependencies
                   /\ ret.val[1].code[3] =
                        "    pub id: " \o (IF column.is_nullable
                                            THEN "Option<" \o ident \o ">" ELSE ident) \o ","

\* the bound descriptor of each name of the range family
RangeBound(name) ==
    CASE name = "int4range" -> Leaf("I32", "i32")
      [] name = "int8range" -> Leaf("I64", "i64")
      [] name = "numrange" -> Leaf("Decimal", "rust_decimal::Decimal")
      [] name = "tsrange" -> Leaf("Timestamp", "chrono::NaiveDateTime")
      [] name = "tstzrange" -> Leaf("TimestampWithTz", "chrono::DateTime<Utc>")
      [] name = "daterange" -> Leaf("Date", "chrono::NaiveDate")

RangeNames == {"int4range", "int8range", "numrange", "tsrange", "tstzrange", "daterange"}

\* C17: every name of the range family maps to the range wrapper around its own bound
\* descriptor; no range name maps to Custom or to a range of a different bound.
C17_RangeFamily ==
    (ret.done /\ call.fn = "type_name_from" /\ call.arg \in RangeNames) =>
        /\ ret.val.kind = "Range"
        /\ ret.val.inner = RangeBound(call.arg)
        /\ Display(ret.val) = "Range<" \o RangeBound(call.arg).name \o ">"

\* type_name_from has mapped tstzrange
C17_Witness ==
    /\ ret.done
    /\ call.fn = "type_name_from"
    /\ call.arg = "tstzrange"
    /\ ret.val.kind = "Range"
    /\ ret.val.inner.kind = "TimestampWithTz"

\* C18: every geometric native type name (point, line, lseg, box, path, polygon,
\* circle) maps to the string descriptor, so a nullable geometric column has the field
\* type Option<String> and a non-nullable one String; none falls through to Custom.
C18_GeometricIsString ==
    ret.done =>
        /\ (call.fn = "type_name_from" /\ call.arg \in GeometricNames) =>
                ret.val = Leaf("String", "String")
        /\ (call.fn = "code_from_tables"
                /\ call.arg[1].columns[1].udt_name \in GeometricNames) =>
                ret.val[1].code[3] =
                    (IF call.arg[1].columns[1].is_nullable
                     THEN "    pub id: Option<String>," ELSE "    pub id: String,")

\* the rows of scenario A
ScenarioARows ==
    <<[table_name |-> "users", column_name |-> "id", udt_name |-> "int4",
       is_nullable |-> FALSE, foreign_key_table |-> None],
      [table_name |-> "users", column_name |-> "email", udt_name |-> "text",
       is_nullable |-> TRUE, foreign_key_table |-> None]>>

\* C19: the rows {users, id, int4, not nullable} and {users, email, text, nullable}
\* assemble to one Table "users" with two columns, and with default options its snippet
\* body declares a record named "Users" with the field id of type i32 and the field
\* email of type Option<String>, with no import and no dependency recorded.
C19_ScenarioA ==
    (Generated /\ catalog = ScenarioARows /\ ~singular /\ excluded_tables = <<>>) =>
        /\ schema.tables =
                <<[name |-> "users",
                   columns |-> <<[name |-> "id", udt_name |-> "int4", is_nullable |-> FALSE,
                                  foreign_key_table |-> None],
                                 [name |-> "email", udt_name |-> "text", is_nullable |-> TRUE,
                                  foreign_key_table |-> None]>>]>>
        /\ LET s == snippets[Len(snippets)]
           IN /\ s.id = "users"
              /\ s.imports = {}
              /\ s.dependencies = {}
              /\ s.code = <<"#[derive(Debug, Clone)]",
                            "pub struct Users {",
                            "    pub id: i32,",
                            "    pub email: Option<String>,",
                            "}">>

\* a run over the rows of scenario A has written users.rs
C19_Witness ==
    /\ catalog = ScenarioARows
    /\ ~singular
    /\ excluded_tables = <<>>
    /\ result = "Ok"
    /\ "users.rs" \in DOMAIN files
    /\ "    pub email: Option<String>," \in Elems(files["users.rs"])

\* C20: each of to_tables, to_enums and to_composite_types applied to an empty row
\* list returns an empty entity list and signals no error.
C20_EmptyInEmptyOut ==
    (ret.done /\ call.fn \in {"to_tables", "to_enums", "to_composite_types"}
        /\ call.arg = <<>>) => ret.val = <<>>

\* to_composite_types has returned for the empty row list
C20_Witness ==
    /\ ret.done
    /\ call.fn = "to_composite_types"
    /\ call.arg = <<>>
    /\ ret.val = <<>>

\* the lines Snippet::finalize renders for the imports and the dependencies of a snippet
RenderedImports(snippet) == {"use " \o i \o ";" : i \in snippet.imports}
RenderedDependencies(snippet) ==
    {"use super::" \o to_pascal_case(d) \o ";" : d \in snippet.dependencies}

\* C21: the finalized text of a snippet is laid out as all import lines, then the
\* blank separator line, then all dependency lines, then the body: no dependency line
\* precedes the blank line and no import line follows it.
C21_ImportsBlankDependencies ==
    Generated =>
        \A i \in DOMAIN snippets :
            LET s == snippets[i]
                ni == Cardinality(s.imports)
                nd == Cardinality(s.dependencies)
            IN (ni + nd > 0) =>
                /\ \A j \in 1..ni : s.code[j] \in RenderedImports(s)
                /\ s.code[ni + 1] = ""
                /\ \A j \in (ni + 2)..(ni + nd + 1) : s.code[j] \in RenderedDependencies(s)

\* the last n lines of a text
Suffix(text, n) == SubSeq(text, Len(text) - n + 1, Len(text))

\* C22: finalize keeps the body unmodified as the suffix of the finalized text and
\* emits the blank separator line exactly when the snippet has at least one import or
\* one dependency; with both sets empty the finalized text equals the body.
C22_BodyKeptBlankWhenUsed ==
    Generated =>
        \A i \in DOMAIN snippets :
            LET s == snippets[i]
                body == UnfinishedSnippets(singular, schema)[i].code
                uses == Cardinality(s.imports) + Cardinality(s.dependencies)
                head == SubSeq(s.code, 1, Len(s.code) - Len(body))
            IN /\ Len(s.code) >= Len(body)
               /\ Suffix(s.code, Len(body)) = body
               /\ uses = 0 => s.code = body
               /\ uses > 0 => /\ Len(head) = uses + 1
                              /\ Cardinality({j \in DOMAIN head : head[j] = ""}) = 1

\* generate_code has returned a snippet with a `use` line and a snippet with none
C22_Witness ==
    /\ Generated
    /\ \E i \in DOMAIN snippets : \E j \in DOMAIN snippets :
            /\ snippets[i].imports = {} /\ snippets[i].dependencies = {}
            /\ snippets[i].code[1] = "#[derive(Debug, Clone)]"
            /\ snippets[j].imports # {}
            /\ "" \in Elems(snippets[j].code)

\* the index of the first row of the table name in the rows
FirstRowOf(rows, name) ==
    CHOOSE i \in DOMAIN rows :
        /\ rows[i].table_name = name
        /\ \A j \in 1..(i - 1) : rows[j].table_name # name

\* C23: in the list to_tables returns, the tables are in the order of the first
\* occurrence of their table name in the input rows.
C23_FirstOccurrenceOrder ==
    (ret.done /\ call.fn = "to_tables") =>
        \A i \in DOMAIN ret.val : \A j \in DOMAIN ret.val :
            i < j => FirstRowOf(call.arg, ret.val[i].name) < FirstRowOf(call.arg, ret.val[j].name)

\* the strictly increasing maps from 1..n into 1..m
Embeddings(n, m) ==
    {f \in [1..n -> 1..m] : \A i \in 1..n : \A j \in 1..n : i < j => f[i] < f[j]}

\* C24: the attributes of every CompositeType and the columns of every Table are in
\* the same relative order as their rows in the input sequence, each row giving one
\* member, also when the rows of different entities are interleaved.
C24_MemberOrderKept ==
    ret.done =>
        /\ call.fn = "to_tables" =>
              \A t \in DOMAIN ret.val :
                \E f \in Embeddings(Len(ret.val[t].columns), Len(call.arg)) :
                    /\ \A i \in DOMAIN ret.val[t].columns :
                          /\ call.arg[f[i]].table_name = ret.val[t].name
                          /\ call.arg[f[i]].column_name = ret.val[t].columns[i].name
                    /\ \A r \in DOMAIN call.arg :
                          call.arg[r].table_name = ret.val[t].name =>
                              \E i \in DOMAIN ret.val[t].columns : f[i] = r
        /\ call.fn = "to_composite_types" =>
              \A t \in DOMAIN ret.val :
                \E f \in Embeddings(Len(ret.val[t].attributes), Len(call.arg)) :
                    /\ \A i \in DOMAIN ret.val[t].attributes :
                          /\ call.arg[f[i]].name = ret.val[t].name
                          /\ call.arg[f[i]].attribute_name = ret.val[t].attributes[i].name
                    /\ \A r \in DOMAIN call.arg :
                          call.arg[r].name = ret.val[t].name =>
                              \E i \in DOMAIN ret.val[t].attributes : f[i] = r

\* to_composite_types has grouped rows of two types that were interleaved
C24_Witness ==
    /\ ret.done
    /\ call.fn = "to_composite_types"
    /\ Len(call.arg) = 3
    /\ call.arg[1].name = "address" /\ call.arg[1].attribute_name = "street"
    /\ call.arg[2].name = "addresses"
    /\ call.arg[3].name = "address" /\ call.arg[3].attribute_name = "zip_code"
    /\ \E t \in DOMAIN ret.val :
            /\ ret.val[t].name = "address"
            /\ ret.val[t].attributes[1].name = "street"
            /\ ret.val[t].attributes[2].name = "zip_code"

\* C25: the body of every enum snippet lists exactly one variant per value of the
\* Enum, each the pascal-cased value name, in the assembled (ascending sort order)
\* order of the values; enum "mood" with value "happy" gives Mood and Happy.
C25_EnumVariants ==
    (call.fn = "to_enums" /\ pc = "generated") =>
        /\ Len(snippets) = Len(ret.val)
        /\ \A i \in DOMAIN ret.val :
              LET e == ret.val[i]
                  code == snippets[i].code
              IN /\ Len(code) = Len(e.values) + 3
                 /\ code[2] = "pub enum " \o to_pascal_case(e.name) \o " {"
                 /\ code[Len(code)] = "}"
                 /\ \A k \in DOMAIN e.values :
                       code[2 + k] = "    " \o to_pascal_case(e.values[k].name) \o ","
                 /\ \A k \in DOMAIN e.values : \A l \in DOMAIN e.values :
                       k < l => e.values[k].order <= e.values[l].order
                 /\ Len(e.values) = Cardinality({r \in DOMAIN call.arg : call.arg[r].name = e.name})
                 /\ (e.name = "mood" /\ \E k \in DOMAIN e.values : e.values[k].name = "happy") =>
                       /\ code[2] = "pub enum Mood {"
                       /\ "    Happy," \in Elems(code)

\* the snippet of enum mood whose rows came as sad (order 1), happy (order 0)
C25_Witness ==
    /\ pc = "generated"
    /\ call.fn = "to_enums"
    /\ call.arg = <<[name |-> "mood", value |-> "sad", sort_order |-> 1],
                    [name |-> "mood", value |-> "happy", sort_order |-> 0]>>
    /\ snippets[1].code = <<"#[derive(Debug, Clone, PartialEq, Eq)]", "pub enum Mood {",
                            "    Happy,", "    Sad,", "}">>

\* the import set add_type_imports records for a descriptor on a new snippet
ImportsOf(t) == add_type_imports(NewSnippet("T"), t).imports

\* the table column of a call with its nullability cleared
NotNullable(column) == [column EXCEPT !.is_nullable = FALSE]

\* C26: the import set of a field is the leaf table applied through the wrappers:
\* imports(Option(T)) = imports(T), imports(Vector(T)) = imports(T), imports(Range(T))
\* = {std::ops::Range} union imports(T); uuid, decimal, date, time and timestamp
\* leaves give their import; a nullable column has the imports of the same column
\* not nullable, at any nesting depth.
C26_ImportsThroughWrappers ==
    ret.done =>
        /\ call.fn = "add_type_imports" =>
              LET t == call.arg
              IN /\ t.kind \in {"Option", "Vector"} => ret.val.imports = ImportsOf(t.inner)
                 /\ t.kind = "Range" =>
                        ret.val.imports = {"std::ops::Range"} \cup ImportsOf(t.inner)
                 /\ t.kind = "Uuid" => ret.val.imports = {"uuid::Uuid"}
                 /\ t.kind = "Decimal" => ret.val.imports = {"rust_decimal::Decimal"}
                 /\ t.kind = "Date" => ret.val.imports = {"chrono::NaiveDate"}
                 /\ t.kind = "Time" => ret.val.imports = {"chrono::NaiveTime"}
                 /\ t.kind = "Timestamp" => ret.val.imports = {"chrono::NaiveDateTime"}
                 /\ t.kind = "TimestampWithTz" => ret.val.imports = {"chrono::{DateTime, Utc}"}
                 /\ t.kind \in {"I32", "String", "Bool"} => ret.val.imports = {}
                 /\ ret.val.code = <<>>
        /\ call.fn = "code_from_tables" =>
              ret.val[1].imports =
                  code_from_tables(singular,
                      <<[name |-> call.arg[1].name,
                         columns |-> <<NotNullable(call.arg[1].columns[1])>>]>>)[1].imports

\* add_type_imports has recorded the imports of Option<Range<Decimal>>
C26_Witness ==
    /\ ret.done
    /\ call.fn = "add_type_imports"
    /\ call.arg = TypeOption(TypeRange(Leaf("Decimal", "rust_decimal::Decimal")))
    /\ ret.val.imports = {"std::ops::Range", "rust_decimal::Decimal"}

\* C27: inside generate_code, generation starts only after get_schema returned the
\* assembled schema; no snippet is finalized before the bodies, imports and
\* dependencies of all snippets are generated; the finalize loop finalizes the
\* snippets one by one, and every returned snippet has been finalized exactly once.
C27_PipelineSequence ==
    /\ pc \in {"start", "generate"} => snippets = <<>>
    /\ pc = "generate" =>
            schema \in get_schema(enum_catalog, composite_catalog, catalog, excluded_tables)
    /\ pc = "finalize" =>
            LET u == UnfinishedSnippets(singular, schema)
            IN /\ Len(snippets) = Len(u)
               /\ next_snippet \in 1..(Len(u) + 1)
               /\ \A i \in DOMAIN u :
                     /\ i >= next_snippet => snippets[i] = u[i]
                     /\ i < next_snippet => snippets[i] \in Finalized(u[i])
    /\ Generated =>
            LET u == UnfinishedSnippets(singular, schema)
            IN /\ Len(snippets) = Len(u)
               /\ \A i \in DOMAIN u : snippets[i] \in Finalized(u[i])

\* generate_code has returned four finalized snippets, the last with a `use` line
C27_Witness ==
    /\ pc = "mkdir"
    /\ Len(snippets) = 4
    /\ next_snippet = 5
    /\ snippets[4].dependencies # {}
    /\ snippets[4] # UnfinishedSnippets(singular, schema)[4]

\* finalize left id, imports and dependencies of the snippet as they were
SetsKept(before, after) ==
    /\ after.id = before.id
    /\ after.imports = before.imports
    /\ after.dependencies = before.dependencies

\* C28 as stated: a second finalize of a finalized snippet leaves its text unchanged,
\* and finalize never changes the snippet's id, import set or dependency set.
C28_FinalizeIdempotent ==
    (call.fn = "finalize" /\ ret.done) =>
        /\ SetsKept(call.arg, ret.val[1])
        /\ Len(ret.val) = 2 =>
                /\ SetsKept(ret.val[1], ret.val[2])
                /\ ret.val[2].code = ret.val[1].code

\* C28 amended: finalize never changes the snippet's id, import set or dependency
\* set; a second finalize leaves the text unchanged exactly when both sets are empty,
\* and otherwise prepends the `use` lines and the blank line once more to the text
\* the first finalize left.
C28_FinalizePrependsAgain ==
    (call.fn = "finalize" /\ ret.done) =>
        /\ SetsKept(call.arg, ret.val[1])
        /\ Len(ret.val) = 2 =>
              LET once == ret.val[1]
                  twice == ret.val[2]
                  uses == Cardinality(once.imports) + Cardinality(once.dependencies)
              IN /\ SetsKept(once, twice)
                 /\ (twice.code = once.code) <=> (uses = 0)
                 /\ uses > 0 =>
                       /\ Len(twice.code) = Len(once.code) + uses + 1
                       /\ Suffix(twice.code, Len(once.code)) = once.code
                       /\ twice.code[uses + 1] = ""
                       /\ \A j \in 1..uses :
                             twice.code[j] \in RenderedImports(once) \cup RenderedDependencies(once)

\* a snippet with an import and a dependency has been finalized twice
C28_Witness ==
    /\ call.fn = "finalize"
    /\ ret.done
    /\ Len(ret.val) = 2
    /\ call.arg.imports = {"uuid::Uuid"}
    /\ call.arg.dependencies = {"User"}
    /\ SubSeq(ret.val[2].code, 1, 6) =
            <<"use uuid::Uuid;", "use super::User;", "", "use uuid::Uuid;", "use super::User;", "">>

\* C29: no snippet depends on itself: for every table, also one with a foreign key
\* that references the same table, the snippet's dependency lines never contain
\* `use super::<Name>` where <Name> is the type the snippet's own body declares.
C29_NoSelfDependency ==
    Generated =>
        \A i \in DOMAIN snippets : \A ident \in TypeIdents :
            Declares(snippets[i], ident) =>
                ("use super::" \o ident \o ";") \notin Elems(snippets[i].code)

\* every table a column of the catalog references, by foreign key or as the user
\* defined type of the column, has rows in the catalog; no column has the row type
\* of its own table
ReferencesInCatalog ==
    \A r \in DOMAIN catalog :
        /\ catalog[r].foreign_key_table # None =>
                \E q \in DOMAIN catalog : catalog[q].table_name = catalog[r].foreign_key_table
        /\ catalog[r].udt_name \in TableNames =>
                /\ catalog[r].udt_name # catalog[r].table_name
                /\ \E q \in DOMAIN catalog : catalog[q].table_name = catalog[r].udt_name

\* C30: whenever a column's foreign key targets a table of the schema, or a column's
\* or attribute's native type names an entity of the schema, the rendered
\* `use super::<Ident>` line names the identifier declared by a snippet of the same
\* run, with the singular option on or off and also when the exclusion list removes
\* the referenced table.
C30_DependenciesResolve ==
    (Generated /\ ReferencesInCatalog) =>
        \A i \in DOMAIN snippets :
            /\ \A d \in snippets[i].dependencies : to_pascal_case(d) \in TypeIdents
            /\ \A ident \in TypeIdents :
                  ("use super::" \o ident \o ";") \in Elems(snippets[i].code) =>
                      \E j \in DOMAIN snippets : Declares(snippets[j], ident)

====
